---------------------------- MODULE Spec2Model ----------------------------
(***************************************************************************)
(* Model of the cleverleben scraper:                                       *)
(*   - clean_and_flatten_output.py : normalize_price, flatten_images_field,*)
(*     clean_text and main (the Post-processor)                            *)
(*   - clever_spider.py : parse_listing and parse_product (the Extractor)  *)
(*                                                                         *)
(* Text is modelled as a sequence of one-character strings, so that the    *)
(* regular expressions, strip() and replace() of the code are computed on  *)
(* characters.  Python's None is the one-element sequence NoneVal, whose   *)
(* element is no character of any alphabet.                                *)
(*                                                                         *)
(* Four specifications share the module, one per component; each parks the *)
(* variables of the other components:                                      *)
(*   SpecPrice   normalize_price as called by main on one record           *)
(*   SpecFlatten flatten_images_field on one value                         *)
(*   Spec        main() of the Post-processor on one input file            *)
(*   SpecSpider  the handlers of CleverSpider during one crawl             *)
(***************************************************************************)
EXTENDS Integers, Sequences, FiniteSets, TLC

VARIABLES
    \* ---- normalize_price, one record's price fields
    it_price,        \* it.get("price")
    it_regular,      \* it.get("regular_price")
    out_price,       \* out["price"]
    out_regular,     \* out["regular_price"]
    price_pc,        \* "parked" | "start" | "done"
    \* ---- flatten_images_field, one value
    fl_value,        \* the value passed in
    fl_out,          \* the list returned
    fl_pc,           \* "parked" | "start" | "done"
    \* ---- main() of the Post-processor
    input_exists,    \* INPUT_JSON: "missing", "invalid" (not JSON) or "ok"
    items,           \* what load_json returns
    pc,              \* position in main
    idx,             \* number of entries of items the loop has consumed
    cleaned,         \* the cleaned list
    seen_ids,        \* the seen_ids set
    removed,         \* the removed counter
    items_with_images,
    json_file,       \* content of cleaned_output.json, or Absent
    csv_file,        \* content of cleaned_output.csv, or Absent
    console,         \* the messages printed
    \* ---- CleverSpider
    max_items,       \* self.max_items
    seen,            \* self.seen
    item_count,      \* self.item_count
    current_url,     \* self._current_url
    gens,            \* the parse_listing generators being iterated
    followed,        \* product URL -> number of parse_product follows issued
    started,         \* product URL -> number of parse_product calls started
    emitted          \* number of items yielded by parse_product

priceVars  == <<it_price, it_regular, out_price, out_regular, price_pc>>
flatVars   == <<fl_value, fl_out, fl_pc>>
postVars   == <<input_exists, items, pc, idx, cleaned, seen_ids, removed,
                items_with_images, json_file, csv_file, console>>
spiderVars == <<max_items, seen, item_count, current_url, gens, followed,
                started, emitted>>
vars       == <<priceVars, flatVars, postVars, spiderVars>>

---------------------------------------------------------------------------
(* Text helpers                                                            *)

NoneVal == <<"None">>
NBSP    == "nbsp"     \* U+00A0
NNBSP   == "nnbsp"    \* U+202F

\* Python truthiness of an optional text
Truthy(p) == p /= NoneVal /\ p /= <<>>

\* a or b
Or(a, b) == IF Truthy(a) THEN a ELSE b

Digits == {"0", "1", "2", "3", "4", "5", "6", "7", "8", "9"}

IsDigit(c) == c \in Digits

\* str.isspace / the class \s
IsSpace(c) == c \in {" ", NBSP, NNBSP, "\t", "\n"}

DigitVal(c) ==
    CASE c = "0" -> 0 [] c = "1" -> 1 [] c = "2" -> 2 [] c = "3" -> 3
      [] c = "4" -> 4 [] c = "5" -> 5 [] c = "6" -> 6 [] c = "7" -> 7
      [] c = "8" -> 8 [] c = "9" -> 9

DigitChar(d) ==
    CASE d = 0 -> "0" [] d = 1 -> "1" [] d = 2 -> "2" [] d = 3 -> "3"
      [] d = 4 -> "4" [] d = 5 -> "5" [] d = 6 -> "6" [] d = 7 -> "7"
      [] d = 8 -> "8" [] d = 9 -> "9"

RECURSIVE LStrip(_)
LStrip(s) == IF s /= <<>> /\ IsSpace(Head(s)) THEN LStrip(Tail(s)) ELSE s

RECURSIVE RStrip(_)
RStrip(s) ==
    IF s /= <<>> /\ IsSpace(s[Len(s)])
    THEN RStrip(SubSeq(s, 1, Len(s) - 1)) ELSE s

\* str.strip()
Strip(s) == RStrip(LStrip(s))

\* str.replace(a, b) for one-character a; b is a text (possibly empty)
RECURSIVE Replace(_, _, _)
Replace(s, a, b) ==
    IF s = <<>> THEN <<>>
    ELSE (IF Head(s) = a THEN b ELSE <<Head(s)>>) \o Replace(Tail(s), a, b)

\* str.count(a)
Count(s, a) == Cardinality({i \in 1..Len(s) : s[i] = a})

RECURSIVE Pow10(_)
Pow10(k) == IF k = 0 THEN 1 ELSE 10 * Pow10(k - 1)

\* the decimal digits of a natural number
RECURSIVE IntToStr(_)
IntToStr(n) ==
    IF n < 10 THEN <<DigitChar(n)>>
    ELSE IntToStr(n \div 10) \o <<DigitChar(n % 10)>>

\* the value of a run of digits
RECURSIVE StrToInt(_)
StrToInt(s) ==
    IF s = <<>> THEN 0
    ELSE 10 * StrToInt(SubSeq(s, 1, Len(s) - 1)) + DigitVal(s[Len(s)])

\* all texts over alphabet A of length at most n
TextsUpTo(A, n) == UNION {[1..k -> A] : k \in 0..n}

---------------------------------------------------------------------------
(* normalize_price                                                         *)

\* number of digits at s[i..], at most cap
RECURSIVE DigitRun(_, _, _)
DigitRun(s, i, cap) ==
    IF cap = 0 \/ i > Len(s) \/ ~IsDigit(s[i]) THEN 0
    ELSE 1 + DigitRun(s, i + 1, cap - 1)

\* (?:[ \.,]\d{3})* from position j: the position after the last group
RECURSIVE MatchGroups(_, _)
MatchGroups(s, j) ==
    IF j <= Len(s) /\ s[j] \in {" ", ".", ","} /\ DigitRun(s, j + 1, 3) = 3
    THEN MatchGroups(s, j + 4) ELSE j

\* (?:[,\.\s]\d{1,2})? from position j: the position after it
MatchFraction(s, j) ==
    IF j <= Len(s) /\ (s[j] \in {",", "."} \/ IsSpace(s[j]))
       /\ DigitRun(s, j + 1, 2) >= 1
    THEN j + 1 + DigitRun(s, j + 1, 2) ELSE j

\* re.search of the price pattern: <<first, last>> of the match, or <<0, 0>>.
\* Every part after \d{1,3} is optional, so the greedy path never backtracks
\* and the leftmost match starts at the first digit.
PriceSearch(s) ==
    LET starts == {i \in 1..Len(s) : IsDigit(s[i])}
    IN IF starts = {} THEN <<0, 0>>
       ELSE LET i == CHOOSE x \in starts : \A y \in starts : x <= y
                j == i + DigitRun(s, i, 3)
            IN <<i, MatchFraction(s, MatchGroups(s, j)) - 1>>

\* the decimal-separator decision on the matched run without its spaces
DecideNumeric(c) ==
    IF Count(c, ",") > 0 /\ Count(c, ".") = 0 THEN Replace(c, ",", <<".">>)
    ELSE IF Count(c, ".") > 0 /\ Count(c, ",") = 0 THEN c
    ELSE Replace(c, ",", <<".">>)

\* float(numeric) succeeds: digits with at most one dot between them
FloatOk(n) ==
    /\ n /= <<>>
    /\ \A i \in 1..Len(n) : IsDigit(n[i]) \/ n[i] = "."
    /\ Count(n, ".") <= 1
    /\ IsDigit(n[1]) /\ IsDigit(n[Len(n)])

\* f"{float(n):.2f}".  The value is N / 10^k for the digits N and k
\* fractional digits; it is rounded to hundredths.  A value exactly half way
\* between two hundredths rounds as the binary float does, which this model
\* does not compute: PriceChars holds no digit 5, so no input is half way.
FormatFloat2(n) ==
    LET dot  == IF Count(n, ".") = 0 THEN Len(n) + 1
                ELSE CHOOSE i \in 1..Len(n) : n[i] = "."
        ip   == StrToInt(SubSeq(n, 1, dot - 1))
        fs   == SubSeq(n, dot + 1, Len(n))
        k    == Len(fs)
        N    == ip * Pow10(k) + StrToInt(fs)
        H    == IF k <= 2 THEN N * Pow10(2 - k)
                ELSE (2 * N + Pow10(k - 2)) \div (2 * Pow10(k - 2))
    IN IntToStr(H \div 100) \o <<".">>
         \o <<DigitChar((H % 100) \div 10), DigitChar(H % 10)>>

\* a variant that drops the text when no number is found
NormalizeNoMatch_Drop(s) == <<NoneVal, NoneVal>>

\* lines 32-33: no match
NormalizeNoMatch(s) == <<s, NoneVal>>

\* normalize_price(p): <<raw, numeric>>
normalize_price(p) ==
    IF ~Truthy(p) THEN <<NoneVal, NoneVal>>
    ELSE LET s == Replace(Strip(p), NBSP, <<" ">>)
             m == PriceSearch(s)
         IN IF m = <<0, 0>> THEN NormalizeNoMatch(s)
            ELSE LET raw     == SubSeq(s, m[1], m[2])
                     c       == Replace(Replace(raw, " ", <<>>), NNBSP, <<>>)
                     numeric == DecideNumeric(c)
                 IN IF FloatOk(numeric)
                    THEN <<raw, FormatFloat2(numeric)>>
                    ELSE <<raw, NoneVal>>

\* main, lines 170-172: the two price fields of the cleaned record
PriceFields(price, regular) ==
    LET r == normalize_price(Or(Or(price, regular), <<>>))
    IN [price |-> Or(r[1], <<>>), regular_price |-> Or(r[2], <<>>)]

---------------------------------------------------------------------------
(* Parked values: what a specification gives the variables of the          *)
(* components it does not run.                                             *)

Absent == [exists |-> FALSE, complete |-> FALSE, rows |-> <<>>]

ParkPrice ==
    /\ it_price = NoneVal /\ it_regular = NoneVal
    /\ out_price = NoneVal /\ out_regular = NoneVal
    /\ price_pc = "parked"

ParkFlatten ==
    /\ fl_value = [t |-> "null"] /\ fl_out = <<>> /\ fl_pc = "parked"

ParkPost ==
    /\ input_exists = "missing" /\ items = <<>> /\ pc = "parked" /\ idx = 0
    /\ cleaned = <<>> /\ seen_ids = {} /\ removed = 0
    /\ items_with_images = 0
    /\ json_file = Absent /\ csv_file = Absent /\ console = <<>>

ParkSpider ==
    /\ max_items = 0 /\ seen = {} /\ item_count = 0
    /\ current_url = "None" /\ gens = <<>> /\ followed = <<>>
    /\ started = <<>> /\ emitted = 0

---------------------------------------------------------------------------
(* SpecPrice: main's price handling of one record                          *)

MaxPriceLen == 4

\* The characters price texts are built from.  No digit 5: see FormatFloat2.
PriceChars == {"1", "9", ",", ".", " ", "€", NBSP}

\* the price texts the specification names, longer than MaxPriceLen
PriceExamples ==
    { <<"1", "9", ",", "9", "9", " ", "€">>,
      <<"1", "2", ".", "9", "9">>,
      <<"1", ".", "2", "3", "4", ",", "5", "6">>,
      <<"9", ".", "1", "9", "9", ",", "9", "1">>,
      <<"1", "2", "3", "4", ",", "5", "6">>,
      <<"€", " ", "3", ",", "5", "0">> }

PriceTexts == TextsUpTo(PriceChars, MaxPriceLen) \cup PriceExamples \cup {NoneVal}

RegularTexts == {NoneVal, <<>>, <<"2">>, <<"€">>}

InitPrice ==
    /\ it_price \in PriceTexts
    /\ it_regular \in RegularTexts
    /\ out_price = NoneVal /\ out_regular = NoneVal
    /\ price_pc = "start"
    /\ ParkFlatten /\ ParkPost /\ ParkSpider

\* main, lines 170-172
NormalizePriceStep ==
    /\ price_pc = "start"
    /\ LET f == PriceFields(it_price, it_regular)
       IN /\ out_price' = f.price
          /\ out_regular' = f.regular_price
    /\ price_pc' = "done"
    /\ UNCHANGED <<it_price, it_regular, flatVars, postVars, spiderVars>>

NextPrice == NormalizePriceStep

SpecPrice == InitPrice /\ [][NextPrice]_vars

\* the text main hands to normalize_price
PriceInput == Or(Or(it_price, it_regular), <<>>)

HasDigit(s) == \E i \in 1..Len(s) : IsDigit(s[i])

\* digits "." digit digit
IsTwoDecimal(n) ==
    /\ Len(n) >= 4
    /\ n[Len(n) - 2] = "."
    /\ \A i \in 1..Len(n) : i /= Len(n) - 2 => IsDigit(n[i])

\* d.ddd,dd
IsDotThousands(s) ==
    /\ Len(s) = 8 /\ s[2] = "." /\ s[6] = ","
    /\ \A i \in {1, 3, 4, 5, 7, 8} : IsDigit(s[i])

\* C3: a price d.ddd,dd (dot for thousands, comma for decimals) is normalized
\* to dddd.dd; "1.234,56" gives "1234.56".
C3_DotThousands ==
    (price_pc = "done" /\ IsDotThousands(PriceInput)) =>
        out_regular = <<PriceInput[1], PriceInput[3], PriceInput[4],
                        PriceInput[5], ".", PriceInput[7], PriceInput[8]>>

\* C4 as stated: a price text holding no number gives an empty price and an
\* empty regular_price.
C4_NoDigitsBothEmpty ==
    (price_pc = "done" /\ ~HasDigit(PriceInput)) =>
        (out_price = <<>> /\ out_regular = <<>>)

\* C4 as amended: a price text holding no number gives an empty
\* regular_price, and a price that is the text without its surrounding
\* whitespace, its no-break spaces written as spaces.
C4_NoDigitsKeepsText ==
    (price_pc = "done" /\ ~HasDigit(PriceInput)) =>
        /\ out_regular = <<>>
        /\ out_price = Replace(Strip(PriceInput), NBSP, <<" ">>)

C4_Witness ==
    /\ price_pc = "done"
    /\ it_price = <<" ", "€">>
    /\ out_price = <<"€">>
    /\ out_regular = <<>>

\* C5: "19,99 EUR" gives raw "19,99" and normalized "19.99", "12.99" gives
\* "12.99"; a normalized value is digits, a dot and two digits, and it is the
\* value of the whole number written in the text: the matched run is not cut
\* inside a run of digits.
C5_WholeNumber ==
    price_pc = "done" =>
        /\ PriceInput = <<"1", "9", ",", "9", "9", " ", "€">> =>
               (out_price = <<"1", "9", ",", "9", "9">>
                /\ out_regular = <<"1", "9", ".", "9", "9">>)
        /\ PriceInput = <<"1", "2", ".", "9", "9">> =>
               out_regular = <<"1", "2", ".", "9", "9">>
        /\ out_regular /= <<>> =>
               /\ IsTwoDecimal(out_regular)
               /\ LET s == Replace(Strip(PriceInput), NBSP, <<" ">>)
                      i == CHOOSE x \in 1..Len(s) :
                               IsDigit(s[x]) /\ \A y \in 1..(x - 1) : ~IsDigit(s[y])
                      e == i + Len(out_price)
                  IN e > Len(s) \/ ~IsDigit(s[e])

---------------------------------------------------------------------------
(* flatten_images_field                                                    *)
(*                                                                         *)
(* Image texts are sequences of tokens.  "U" and "V" stand for the URLs    *)
(* http://u and http://v, "h" for the word httpx (it starts with http and  *)
(* holds no "://"), "x" for any other character; "," ";" " " "dq" "sq" are *)
(* the comma, the semicolon, the space and the two quotes.  A URL found in *)
(* a text is the run of tokens matched, so <<"U", "x">> is http://ux.      *)
(* Values are tagged: [t |-> "str", s |-> text], [t |-> "list", e |-> a    *)
(* sequence of values], [t |-> "dict", e |-> a sequence of <<key, value>>  *)
(* in insertion order], [t |-> "num"] (the number 5), [t |-> "null"].      *)

Null     == [t |-> "null"]
Num      == [t |-> "num"]
Str(s)   == [t |-> "str", s |-> s]
List(e)  == [t |-> "list", e |-> e]
Dict(e)  == [t |-> "dict", e |-> e]

SchemeTokens == {"U", "V"}

\* the characters URL_RE's class [^\s"',;] excludes
UrlEnd(c) == IsSpace(c) \/ c \in {"dq", "sq", ",", ";"}

\* the end (exclusive) of the URL_RE match that starts at i
RECURSIVE UrlStop(_, _)
UrlStop(s, j) == IF j > Len(s) \/ UrlEnd(s[j]) THEN j ELSE UrlStop(s, j + 1)

\* URL_RE.findall(s) from position i on
RECURSIVE FindAllFrom(_, _)
FindAllFrom(s, i) ==
    IF i > Len(s) THEN <<>>
    ELSE IF s[i] \in SchemeTokens
         THEN LET j == UrlStop(s, i + 1)
              IN <<SubSeq(s, i, j - 1)>> \o FindAllFrom(s, j)
         ELSE FindAllFrom(s, i + 1)

FindAll(s) == FindAllFrom(s, 1)

\* re.split(r'[;,]\s*', s): the pieces between separators, each separator
\* taking the whitespace that follows it
RECURSIVE SplitFrom(_, _, _)
SplitFrom(s, i, cur) ==
    IF i > Len(s) THEN <<cur>>
    ELSE IF s[i] \in {";", ","}
         THEN LET rest == LStrip(SubSeq(s, i + 1, Len(s)))
              IN <<cur>> \o SplitFrom(rest, 1, <<>>)
         ELSE SplitFrom(s, i + 1, Append(cur, s[i]))

SplitSep(s) == SplitFrom(s, 1, <<>>)

\* str.strip(c) for a quote c
RECURSIVE StripChar(_, _)
StripChar(s, c) ==
    IF s /= <<>> /\ Head(s) = c THEN StripChar(Tail(s), c)
    ELSE IF s /= <<>> /\ s[Len(s)] = c
         THEN StripChar(SubSeq(s, 1, Len(s) - 1), c)
         ELSE s

\* p.strip().strip('"').strip("'")
StripPiece(p) == StripChar(StripChar(Strip(p), "dq"), "sq")

\* lines 57-67: the first URL of every piece that holds one
RECURSIVE SearchPieces(_)
SearchPieces(parts) ==
    IF parts = <<>> THEN <<>>
    ELSE LET f == FindAll(StripPiece(Head(parts)))
         IN (IF f /= <<>> THEN <<f[1]>> ELSE <<>>) \o SearchPieces(Tail(parts))

extract_urls_from_string(s) ==
    IF s = <<>> THEN <<>>
    ELSE IF FindAll(s) /= <<>> THEN FindAll(s)
         ELSE SearchPieces(SplitSep(s))

InSeq(x, q) == \E i \in 1..Len(q) : q[i] = x

\* a variant that appends every URL, seen or not
AppendUnseenList_All(out, urls) == out \o urls

\* lines 85-89: append the stripped, non-empty URLs not seen before
RECURSIVE AppendUnseenList(_, _)
AppendUnseenList(out, urls) ==
    IF urls = <<>> THEN out
    ELSE LET uu == Strip(Head(urls))
         IN AppendUnseenList(
                IF uu /= <<>> /\ ~InSeq(uu, out) THEN Append(out, uu) ELSE out,
                Tail(urls))

\* lines 95-98
RECURSIVE AppendUnseenDict(_, _)
AppendUnseenDict(out, urls) ==
    IF urls = <<>> THEN out
    ELSE AppendUnseenDict(
             IF ~InSeq(Head(urls), out) THEN Append(out, Head(urls)) ELSE out,
             Tail(urls))

\* lines 103-107
RECURSIVE AppendUnseenStr(_, _)
AppendUnseenStr(out, urls) ==
    IF urls = <<>> THEN out
    ELSE LET uu == Strip(Head(urls))
         IN AppendUnseenStr(
                IF uu /= <<>> /\ ~InSeq(uu, out) THEN Append(out, uu) ELSE out,
                Tail(urls))

StartsWithHttp(p) == p /= <<>> /\ p[1] \in SchemeTokens \cup {"h"}

\* lines 110-116: the pieces that start with "http", verbatim
RECURSIVE AppendHttpPieces(_, _)
AppendHttpPieces(out, parts) ==
    IF parts = <<>> THEN out
    ELSE LET p == StripPiece(Head(parts))
         IN AppendHttpPieces(
                IF StartsWithHttp(p) /\ ~InSeq(p, out) THEN Append(out, p) ELSE out,
                Tail(parts))

\* "not value"
Falsy(v) ==
    \/ v.t = "null"
    \/ v.t = "str" /\ v.s = <<>>
    \/ v.t \in {"list", "dict"} /\ v.e = <<>>

IsContainer(v) == v.t \in {"list", "dict"}

\* json.dumps(v, ensure_ascii=False); the texts hold no quote to escape
RECURSIVE JsonDumps(_)
RECURSIVE JsonJoin(_, _)
JsonJoin(e, isDict) ==
    IF e = <<>> THEN <<>>
    ELSE (IF isDict
          THEN <<"dq">> \o Head(e)[1] \o <<"dq", ":", " ">> \o JsonDumps(Head(e)[2])
          ELSE JsonDumps(Head(e)))
         \o (IF Len(e) > 1 THEN <<",", " ">> ELSE <<>>)
         \o JsonJoin(Tail(e), isDict)

JsonDumps(v) ==
    CASE v.t = "null" -> <<"null">>
      [] v.t = "num"  -> <<"5">>
      [] v.t = "str"  -> <<"dq">> \o v.s \o <<"dq">>
      [] v.t = "list" -> <<"[">> \o JsonJoin(v.e, FALSE) \o <<"]">>
      [] v.t = "dict" -> <<"{">> \o JsonJoin(v.e, TRUE) \o <<"}">>

\* str(v) of a value that is no container
PyStr(v) == IF v.t = "str" THEN v.s ELSE IF v.t = "num" THEN <<"5">> ELSE <<"None">>

\* lines 76-90: the list branch
RECURSIVE FlattenList(_, _)
FlattenList(e, out) ==
    IF e = <<>> THEN out
    ELSE LET v == Head(e)
             urls == IF IsContainer(v)
                     THEN extract_urls_from_string(JsonDumps(v))
                     ELSE extract_urls_from_string(PyStr(v))
         IN FlattenList(Tail(e),
                        IF Falsy(v) THEN out ELSE AppendUnseenList(out, urls))

\* lines 101-117: the string branch
FlattenStr(s) ==
    LET out == AppendUnseenStr(<<>>, extract_urls_from_string(s))
    IN IF out = <<>> THEN AppendHttpPieces(out, SplitSep(s)) ELSE out

RECURSIVE flatten_images_field(_)
RECURSIVE FlattenDict(_, _)
\* lines 92-99: the mapping branch
FlattenDict(e, out) ==
    IF e = <<>> THEN out
    ELSE FlattenDict(Tail(e),
                     AppendUnseenDict(out, flatten_images_field(Head(e)[2])))

flatten_images_field(value) ==
    IF Falsy(value) THEN <<>>
    ELSE CASE value.t = "list" -> FlattenList(value.e, <<>>)
           [] value.t = "dict" -> FlattenDict(value.e, <<>>)
           [] value.t = "str"  -> FlattenStr(value.s)
           [] OTHER            -> flatten_images_field(Str(PyStr(value)))

---------------------------------------------------------------------------
(* SpecFlatten: flatten_images_field on one value                          *)

MaxStrLen == 3
MaxElems  == 2

FlatTokens == {"U", "V", "h", "x", ",", " "}

\* the elements of lists and the values of mappings
ElemLeaves == {Null, Num} \cup {Str(s) : s \in TextsUpTo({"U", "V", "x"}, 1)}

InnerLists == {List(e) : e \in [1..1 -> {Str(<<"U">>), Str(<<"V">>)}]
                                 \cup [1..2 -> {Str(<<"U">>), Str(<<"V">>)}]}

InnerDicts == {Dict(<<<<k, v>>>>) : k \in {<<"m">>, <<"V">>},
                                    v \in {Str(<<"U">>),
                                           List(<<Str(<<"U">>), Str(<<"U">>)>>)}}

Elems == ElemLeaves \cup InnerLists \cup InnerDicts

DictKeys == {<<"m">>, <<"n">>}

\* sequences of entries with pairwise different keys
DictEntries ==
    {e \in UNION {[1..k -> DictKeys \X Elems] : k \in 0..MaxElems} :
        \A i, j \in 1..Len(e) : i /= j => e[i][1] /= e[j][1]}

FlatValues ==
    {Null, Num}
    \cup {Str(s) : s \in TextsUpTo(FlatTokens, MaxStrLen)}
    \cup {List(e) : e \in UNION {[1..k -> Elems] : k \in 0..MaxElems}}
    \cup {Dict(e) : e \in DictEntries}

InitFlatten ==
    /\ fl_value \in FlatValues
    /\ fl_out = <<>>
    /\ fl_pc = "start"
    /\ ParkPrice /\ ParkPost /\ ParkSpider

FlattenStep ==
    /\ fl_pc = "start"
    /\ fl_out' = flatten_images_field(fl_value)
    /\ fl_pc' = "done"
    /\ UNCHANGED <<fl_value, priceVars, postVars, spiderVars>>

NextFlatten == FlattenStep

SpecFlatten == InitFlatten /\ [][NextFlatten]_vars

\* The URL occurrences of a value in reading order, repeats included: the
\* URLs of a text (or, when it holds none, its pieces that start with
\* "http"), of every non-empty element of a list, of every value of a mapping.
RECURSIVE HttpPieces(_)
HttpPieces(parts) ==
    IF parts = <<>> THEN <<>>
    ELSE (IF StartsWithHttp(StripPiece(Head(parts)))
          THEN <<StripPiece(Head(parts))>> ELSE <<>>) \o HttpPieces(Tail(parts))

RECURSIVE Occurrences(_)
RECURSIVE OccurrencesOfAll(_, _)
OccurrencesOfAll(e, inList) ==
    IF e = <<>> THEN <<>>
    ELSE (IF inList
          THEN (IF Falsy(Head(e)) THEN <<>>
                ELSE IF IsContainer(Head(e)) THEN FindAll(JsonDumps(Head(e)))
                ELSE FindAll(PyStr(Head(e))))
          ELSE Occurrences(Head(e)[2]))
         \o OccurrencesOfAll(Tail(e), inList)

Occurrences(v) ==
    CASE v.t = "str"  -> IF FindAll(v.s) /= <<>> THEN FindAll(v.s)
                         ELSE HttpPieces(SplitSep(v.s))
      [] v.t = "list" -> OccurrencesOfAll(v.e, TRUE)
      [] v.t = "dict" -> OccurrencesOfAll(v.e, FALSE)
      [] OTHER        -> <<>>

FirstIndex(q, x) == CHOOSE i \in 1..Len(q) : q[i] = x /\ \A j \in 1..(i - 1) : q[j] /= x

ExampleImages == Dict(<< <<<<"m">>, List(<<Str(<<"U">>), Str(<<"U">>)>>)>> >>)

\* C6: the list flatten_images_field returns holds URL texts only, holds none
\* twice, holds exactly the URLs that occur in the value, in the order they
\* first occur (so a value with no URL gives the empty list); the mapping
\* {"main": [a, a]} gives [a].
C6_FlatDedupOrdered ==
    fl_pc = "done" =>
        LET occ == Occurrences(fl_value)
        IN /\ \A i \in 1..Len(fl_out) : StartsWithHttp(fl_out[i])
           /\ \A i, j \in 1..Len(fl_out) : i /= j => fl_out[i] /= fl_out[j]
           /\ {fl_out[i] : i \in 1..Len(fl_out)} = {occ[i] : i \in 1..Len(occ)}
           /\ \A i, j \in 1..Len(fl_out) :
                  i < j => FirstIndex(occ, fl_out[i]) < FirstIndex(occ, fl_out[j])
           /\ fl_value = ExampleImages => fl_out = << <<"U">> >>

C6_Witness ==
    /\ fl_pc = "done"
    /\ fl_value = ExampleImages
    /\ fl_out = << <<"U">> >>

---------------------------------------------------------------------------
(* main() of the Post-processor                                            *)
(*                                                                         *)
(* An entry of the input is a record (a JSON object) or not.  A record     *)
(* carries the keys unique_id, product_id, product_url, price and images;  *)
(* the other keys main reads are absent from it.  badkey marks a record    *)
(* whose unique_id is a non-empty list: a truthy key that cannot be hashed.*)
(* A file is Absent, or [exists, complete, rows]: complete is FALSE while  *)
(* the file is open for writing and after a write that failed.             *)

\* re.sub(r"\s+", " ", s)
RECURSIVE CollapseSpaces(_)
CollapseSpaces(s) ==
    IF s = <<>> THEN <<>>
    ELSE IF IsSpace(Head(s))
         THEN <<" ">> \o CollapseSpaces(LStrip(s))
         ELSE <<Head(s)>> \o CollapseSpaces(Tail(s))

clean_text(s) ==
    IF s = NoneVal THEN <<>>
    ELSE CollapseSpaces(Strip(Replace(s, NBSP, <<" ">>)))

\* line 160: the dedup key of a raw record
RawKey(it) == Or(Or(it.unique_id, it.product_id), it.product_url)

\* "cdn" or "http" occurs in a text: of the tokens only U, V and h hold it
HasHttpOrCdn(s) == \E i \in 1..Len(s) : s[i] \in SchemeTokens \cup {"h"}

\* lines 190-199: the first field, in the record's order, whose text holds
\* "cdn" or "http" and that yields URLs.  The key and price texts hold no
\* image token, so only the images field can.
HeuristicImages(it) ==
    LET texts == <<it.unique_id, it.product_id, it.product_url, it.price>>
        hit   == {i \in 1..Len(texts) :
                     texts[i] /= NoneVal /\ HasHttpOrCdn(texts[i])
                     /\ flatten_images_field(Str(texts[i])) /= <<>>}
    IN IF hit /= {}
       THEN flatten_images_field(Str(texts[CHOOSE i \in hit : \A j \in hit : i <= j]))
       ELSE IF it.images.t \in {"list", "dict", "str"}
               /\ HasHttpOrCdn(IF it.images.t = "str" THEN it.images.s
                               ELSE JsonDumps(it.images))
            THEN flatten_images_field(it.images)
            ELSE <<>>

\* lines 176-199: "images" is the one preferred key and the one guessed key
\* the records carry
ImageUrls(it) ==
    LET preferred == flatten_images_field(it.images)
    IN IF preferred /= <<>> THEN preferred ELSE HeuristicImages(it)

\* ";".join(image_urls)
RECURSIVE JoinSemicolon(_)
JoinSemicolon(urls) ==
    IF urls = <<>> THEN <<>>
    ELSE Head(urls) \o (IF Len(urls) > 1 THEN <<";">> ELSE <<>>)
         \o JoinSemicolon(Tail(urls))

\* lines 167-209: the cleaned record of a raw record
CleanRecord(it) ==
    LET f == PriceFields(it.price, NoneVal)
    IN [product_url         |-> clean_text(it.product_url),
        product_name        |-> clean_text(NoneVal),
        price               |-> f.price,
        regular_price       |-> f.regular_price,
        currency            |-> clean_text(Or(NoneVal, <<>>)),
        images              |-> JoinSemicolon(ImageUrls(it)),
        product_description |-> clean_text(Or(NoneVal, <<>>)),
        unique_id           |-> clean_text(Or(it.unique_id, <<>>)),
        product_id          |-> clean_text(Or(it.product_id, <<>>)),
        ingredients         |-> clean_text(Or(NoneVal, <<>>)),
        details             |-> clean_text(Or(NoneVal, <<>>))]

\* lines 217-224: the CSV row of a cleaned record, in fieldnames order
CsvRow(r) ==
    <<r.unique_id, r.product_id, r.product_name, r.product_url, r.price,
      r.regular_price, r.currency, r.product_description, r.ingredients,
      r.details, r.images>>

CsvHeader ==
    <<"unique_id", "product_id", "product_name", "product_url", "price",
      "regular_price", "currency", "product_description", "ingredients",
      "details", "images">>

MaxItems == 2

KeyTexts == {NoneVal, <<"a">>, <<" ", "a">>}

RawRecords ==
    [kind : {"dict"}, badkey : {FALSE},
     unique_id : KeyTexts, product_id : {NoneVal, <<"a">>},
     product_url : {<<>>, <<"a">>},
     price : {<<"1", ",", "9">>},
     images : {Null, Str(<<"U">>)}]

\* an entry that is no record (a number, a string, a list)
NotARecord ==
    [kind |-> "other", badkey |-> FALSE, unique_id |-> NoneVal,
     product_id |-> NoneVal, product_url |-> NoneVal, price |-> NoneVal,
     images |-> Null]

\* a record whose unique_id is a non-empty list
UnhashableKey ==
    [kind |-> "dict", badkey |-> TRUE, unique_id |-> NoneVal,
     product_id |-> NoneVal, product_url |-> NoneVal, price |-> NoneVal,
     images |-> Null]

Entries == RawRecords \cup {NotARecord, UnhashableKey}

\* INPUT_JSON: missing, not JSON, or a JSON array of entries
InputStates == {"missing", "invalid", "ok"}

Init ==
    /\ input_exists \in InputStates
    /\ items \in UNION {[1..k -> Entries] : k \in 0..MaxItems}
    /\ (input_exists /= "ok" => items = <<>>)
    /\ pc = "start"
    /\ idx = 0 /\ cleaned = <<>> /\ seen_ids = {} /\ removed = 0
    /\ items_with_images = 0
    /\ json_file = Absent /\ csv_file = Absent
    /\ console = <<>>
    /\ ParkPrice /\ ParkFlatten /\ ParkSpider

\* lines 144-148 with load_json, lines 16-24
LoadJson ==
    /\ pc = "start"
    /\ \/ input_exists = "missing" /\ console' = <<"ERROR">> /\ pc' = "done"
       \/ input_exists = "invalid" /\ console' = console /\ pc' = "crashed"
       \/ input_exists = "ok" /\ console' = console /\ pc' = "loop"
    /\ UNCHANGED <<input_exists, items, idx, cleaned, seen_ids, removed,
                   items_with_images, json_file, csv_file,
                   priceVars, flatVars, spiderVars>>

\* lines 162-164: the key was seen before
CountDuplicate_Forget == UNCHANGED removed

CountDuplicate == removed' = removed + 1

\* lines 155-211: one iteration of the loop
LoopStep ==
    /\ pc = "loop" /\ idx < Len(items)
    /\ LET it == items[idx + 1]
           uid == RawKey(it)
       IN \/ /\ it.kind /= "dict"
             /\ idx' = idx + 1
             /\ UNCHANGED <<pc, cleaned, seen_ids, removed, items_with_images>>
          \/ /\ it.kind = "dict" /\ it.badkey
             /\ pc' = "crashed"
             /\ UNCHANGED <<idx, cleaned, seen_ids, removed, items_with_images>>
          \/ /\ it.kind = "dict" /\ ~it.badkey
             /\ Truthy(uid) /\ uid \in seen_ids
             /\ CountDuplicate
             /\ idx' = idx + 1
             /\ UNCHANGED <<pc, cleaned, seen_ids, items_with_images>>
          \/ /\ it.kind = "dict" /\ ~it.badkey
             /\ ~(Truthy(uid) /\ uid \in seen_ids)
             /\ seen_ids' = IF Truthy(uid) THEN seen_ids \cup {uid} ELSE seen_ids
             /\ cleaned' = Append(cleaned, CleanRecord(it))
             /\ items_with_images' =
                    IF ImageUrls(it) /= <<>> THEN items_with_images + 1
                    ELSE items_with_images
             /\ idx' = idx + 1
             /\ UNCHANGED <<pc, removed>>
    /\ UNCHANGED <<input_exists, items, json_file, csv_file, console,
                   priceVars, flatVars, spiderVars>>

\* a variant that rewrites the JSON file while the loop still runs
WriteJson_Early ==
    /\ pc = "loop" /\ cleaned /= <<>>
    /\ json_file' = [exists |-> TRUE, complete |-> TRUE, rows |-> cleaned]
    /\ pc' = IF idx = Len(items) THEN "write_csv" ELSE pc
    /\ UNCHANGED <<input_exists, items, idx, cleaned, seen_ids, removed,
                   items_with_images, csv_file, console,
                   priceVars, flatVars, spiderVars>>

\* line 214: OUT_JSON.write_text, which may fail to open the file or fail
\* after truncating it
WriteJson ==
    /\ pc = "loop" /\ idx = Len(items)
    /\ \/ json_file' = [exists |-> TRUE, complete |-> TRUE, rows |-> cleaned] /\ pc' = "write_csv"
       \/ json_file' = json_file /\ pc' = "crashed"
       \/ json_file' = [exists |-> TRUE, complete |-> FALSE, rows |-> <<>>] /\ pc' = "crashed"
    /\ UNCHANGED <<input_exists, items, idx, cleaned, seen_ids, removed,
                   items_with_images, csv_file, console,
                   priceVars, flatVars, spiderVars>>

\* lines 220-222: open the CSV file and write the header
OpenCsv ==
    /\ pc = "write_csv"
    /\ \/ csv_file' = [exists |-> TRUE, complete |-> FALSE, rows |-> <<CsvHeader>>] /\ pc' = "csv_rows"
       \/ csv_file' = csv_file /\ pc' = "crashed"
    /\ UNCHANGED <<input_exists, items, idx, cleaned, seen_ids, removed,
                   items_with_images, json_file, console,
                   priceVars, flatVars, spiderVars>>

\* lines 223-225: one row
WriteCsvRow ==
    /\ pc = "csv_rows" /\ Len(csv_file.rows) - 1 < Len(cleaned)
    /\ \/ /\ csv_file' = [csv_file EXCEPT !.rows =
                             Append(@, CsvRow(cleaned[Len(csv_file.rows)]))]
          /\ pc' = pc
       \/ csv_file' = csv_file /\ pc' = "crashed"
    /\ UNCHANGED <<input_exists, items, idx, cleaned, seen_ids, removed,
                   items_with_images, json_file, console,
                   priceVars, flatVars, spiderVars>>

\* the with block closes the file; lines 227-229 report
Report ==
    /\ pc = "csv_rows" /\ Len(csv_file.rows) - 1 = Len(cleaned)
    /\ csv_file' = [csv_file EXCEPT !.complete = TRUE]
    /\ console' = <<"Converted", Len(items), Len(cleaned), removed,
                    items_with_images>>
    /\ pc' = "done"
    /\ UNCHANGED <<input_exists, items, idx, cleaned, seen_ids, removed,
                   items_with_images, json_file,
                   priceVars, flatVars, spiderVars>>

Next == LoadJson \/ LoopStep \/ WriteJson \/ OpenCsv \/ WriteCsvRow \/ Report

Spec == Init /\ [][Next]_vars

\* the dedup key of a cleaned record: the first non-empty of its unique_id,
\* product_id, product_url
CleanedKey(r) == Or(Or(r.unique_id, r.product_id), r.product_url)

\* C1: no two cleaned records carry the same non-empty dedup key.
C1_OneItemPerKey ==
    \A i, j \in 1..Len(cleaned) :
        (i /= j /\ CleanedKey(cleaned[i]) /= <<>>) =>
            CleanedKey(cleaned[i]) /= CleanedKey(cleaned[j])

\* the entries the loop has consumed
Consumed == SubSeq(items, 1, idx)

AllRecords(q) == \A i \in 1..Len(q) : q[i].kind = "dict"

Keyed(q)   == Cardinality({i \in 1..Len(q) : Truthy(RawKey(q[i]))})
Keyless(q) == Cardinality({i \in 1..Len(q) : ~Truthy(RawKey(q[i]))})

\* C2: while every entry consumed so far is a record, the entries consumed
\* less the cleaned records is the removed count; every record with no key
\* is kept and only records with a key seen before are removed; the final
\* report states these counts.
C2_CountsBalance ==
    /\ (pc /= "parked" /\ AllRecords(Consumed)) =>
           /\ idx - Len(cleaned) = removed
           /\ Len(cleaned) = Keyless(Consumed) + Cardinality(seen_ids)
           /\ removed = Keyed(Consumed) - Cardinality(seen_ids)
    /\ (pc = "done" /\ input_exists = "ok" /\ AllRecords(items)) =>
           /\ idx = Len(items)
           /\ console[2] - console[3] = console[4]

C2_Witness ==
    /\ pc = "done" /\ input_exists = "ok" /\ AllRecords(items)
    /\ Len(items) = 2 /\ removed = 1 /\ Len(cleaned) = 1

C2_WitnessKeyless ==
    /\ pc = "loop" /\ idx = 2 /\ AllRecords(Consumed)
    /\ Keyless(Consumed) = 2 /\ Len(cleaned) = 2 /\ removed = 0

IsSnapshot(f) == f /= Absent /\ f.complete

\* C7 as stated: a run that ended, normally or by a failure, left either no
\* artifact or the complete snapshot of both; a missing input leaves none.
C7_NoPartialArtifact ==
    /\ input_exists = "missing" => (json_file = Absent /\ csv_file = Absent)
    /\ (pc \in {"done", "crashed"} /\ (json_file /= Absent \/ csv_file /= Absent)) =>
           (IsSnapshot(json_file) /\ IsSnapshot(csv_file))

\* C7 as amended: a missing input is reported and nothing is written; a file
\* is written only after every entry was consumed, so a failure while loading
\* or in the loop leaves no artifact; the JSON file is written first and the
\* CSV file is touched only once the JSON file is complete, its rows being
\* the header and the first cleaned records in order.
C7_WrittenAfterLoop ==
    /\ input_exists = "missing" =>
           /\ json_file = Absent /\ csv_file = Absent
           /\ pc = "done" => console = <<"ERROR">>
    /\ (json_file /= Absent \/ csv_file /= Absent) =>
           (idx = Len(items) /\ pc \notin {"start", "loop"})
    /\ IsSnapshot(json_file) => json_file.rows = cleaned
    /\ csv_file /= Absent =>
           /\ IsSnapshot(json_file)
           /\ Len(csv_file.rows) <= Len(cleaned) + 1
           /\ csv_file.rows[1] = CsvHeader
           /\ \A i \in 2..Len(csv_file.rows) : csv_file.rows[i] = CsvRow(cleaned[i - 1])
           /\ csv_file.complete => Len(csv_file.rows) = Len(cleaned) + 1
    /\ (pc = "crashed" /\ idx < Len(items)) =>
           (json_file = Absent /\ csv_file = Absent)

C7_Witness ==
    /\ pc = "crashed" /\ idx = 1 /\ Len(items) = 2 /\ Len(cleaned) = 1
    /\ json_file = Absent /\ csv_file = Absent

C7_WitnessMissing ==
    /\ pc = "done" /\ input_exists = "missing" /\ console = <<"ERROR">>
    /\ json_file = Absent /\ csv_file = Absent

---------------------------------------------------------------------------
(* CleverSpider: parse_listing and parse_product                           *)
(*                                                                         *)
(* The framework calls a handler with a response and iterates the          *)
(* generator it returns; it may iterate the generators of several          *)
(* responses in turn, so the steps of two parse_listing calls interleave   *)
(* at their yields, and parse_product calls run between them.  A step is   *)
(* what one generator runs between two yields.  parse_listing is started   *)
(* for a followed listing or pagination request, or by parse_category      *)
(* (line 78) for a category page without sub-categories.                   *)
(*                                                                         *)
(* A pagination href is [path, num]: the text path?page=num, path 1 and 2  *)
(* in the order of their texts, num 0 when what follows "page=" is no      *)
(* digit.  The page read by a call is recorded in its slot when the call   *)
(* reads it, after its product links.                                      *)

MaxMaxItems == 2
MaxLinks    == 2
MaxPage     == 3

ProductUrls == {"p1", "p2"}

Slots == {"g1", "g2"}

NoHref == [path |-> 0, num |-> 0]

Hrefs == [path : 1..2, num : 2..MaxPage] \cup {[path |-> 1, num |-> 0]}

\* what a listing response holds for pagination: the href of the first
\* "next" anchor ("None" when there is none), the ?page= hrefs, and the page
\* number in the response's own URL (0 when it has none)
\* (the ?page= hrefs and the URL are read only when there is no anchor,
\* lines 99-104)
PageContents ==
    {[anchor |-> "next", pages |-> {}, cur |-> 0]}
    \cup [anchor : {"None"},
          pages  : {ps \in SUBSET Hrefs : Cardinality(ps) <= 2},
          cur    : {0} \cup (2..(MaxPage - 1))]

NoPage == [anchor |-> "None", pages |-> {}, cur |-> 0]

IdleGen == [stage |-> "idle", links |-> <<>>, page |-> NoPage,
            read |-> FALSE, href |-> NoHref, byAnchor |-> FALSE]

\* sorted(set(pages)): h comes before k in the order of their texts
HrefBefore(h, k) ==
    \/ h.path < k.path
    \/ h.path = k.path /\ (IF h.num = 0 THEN 10 ELSE h.num) < (IF k.num = 0 THEN 10 ELSE k.num)

\* a variant that takes any later page
FallbackMatches_Later(h, cur) == h.num /= 0 /\ h.num > cur

\* lines 107-108: m2 and int(m2.group(1)) == cur + 1
FallbackMatches(h, cur) == h.num /= 0 /\ h.num = cur + 1

\* lines 100-111: the ?page= fallback; NoHref when no link matches
FallbackHref(page) ==
    LET cur  == IF page.cur = 0 THEN 1 ELSE page.cur
        cand == {h \in page.pages : FallbackMatches(h, cur)}
    IN IF cand = {} THEN NoHref
       ELSE CHOOSE h \in cand : \A k \in cand : k = h \/ HrefBefore(h, k)

\* the first position of q that holds a URL not in seen, 0 when none does
FirstUnseen(q) ==
    LET new == {i \in 1..Len(q) : q[i] \notin seen}
    IN IF new = {} THEN 0 ELSE CHOOSE i \in new : \A j \in new : i <= j

\* a variant that follows every link
NextToFollow_Any(q) == IF q = <<>> THEN 0 ELSE 1

\* line 85: the next link the loop follows
NextToFollow(q) == FirstUnseen(q)

InitSpider ==
    /\ max_items \in -1..MaxMaxItems
    /\ seen = {}
    /\ item_count = 0
    /\ current_url = "None"
    /\ gens = [g \in Slots |-> IdleGen]
    /\ followed = [u \in ProductUrls |-> 0]
    /\ started = [u \in ProductUrls |-> 0]
    /\ emitted = 0
    /\ ParkPrice /\ ParkFlatten /\ ParkPost

\* the framework calls parse_listing(response): line 82 runs at the first
\* step, on the response's product links
StartListing(g) ==
    /\ gens[g].stage = "idle"
    /\ \E links \in UNION {[1..k -> ProductUrls] : k \in 0..MaxLinks} :
           gens' = [gens EXCEPT ![g] = [IdleGen EXCEPT !.stage = "links",
                                                       !.links = links]]
    /\ UNCHANGED <<max_items, seen, item_count, current_url, followed,
                   started, emitted, priceVars, flatVars, postVars>>

\* lines 83-87: the loop runs to the next link it follows, and yields
FollowProduct(g) ==
    /\ gens[g].stage = "links"
    /\ NextToFollow(gens[g].links) /= 0
    /\ LET k   == NextToFollow(gens[g].links)
           url == gens[g].links[k]
       IN /\ seen' = seen \cup {url}
          /\ followed' = [followed EXCEPT ![url] = @ + 1]
          /\ gens' = [gens EXCEPT ![g].links =
                         SubSeq(gens[g].links, k + 1, Len(gens[g].links))]
    /\ UNCHANGED <<max_items, item_count, current_url, started, emitted,
                   priceVars, flatVars, postVars>>

\* line 89
StopPaginating == item_count >= max_items

\* lines 83-114: the loop ends with no link left to follow; the call stops
\* (line 90), or reads the page and yields its one pagination follow, or
\* ends without one
Paginate(g) ==
    /\ gens[g].stage = "links"
    /\ NextToFollow(gens[g].links) = 0
    /\ \/ /\ StopPaginating
          /\ gens' = [gens EXCEPT ![g] = [IdleGen EXCEPT !.stage = "ended"]]
       \/ /\ ~StopPaginating
          /\ \E page \in PageContents :
                LET byAnchor == page.anchor /= "None"
                    href     == IF byAnchor THEN NoHref ELSE FallbackHref(page)
                    issued   == byAnchor \/ href /= NoHref
                IN gens' = [gens EXCEPT ![g] =
                               [stage    |-> IF issued THEN "paginated" ELSE "ended",
                                links    |-> <<>>,
                                page     |-> page,
                                read     |-> TRUE,
                                href     |-> href,
                                byAnchor |-> byAnchor]]
    /\ UNCHANGED <<max_items, seen, item_count, current_url, followed,
                   started, emitted, priceVars, flatVars, postVars>>

\* the generator is resumed after its pagination follow and ends, or has
\* ended: the framework drops it
EndListing(g) ==
    /\ gens[g].stage \in {"paginated", "ended"}
    /\ gens' = [gens EXCEPT ![g] = IdleGen]
    /\ UNCHANGED <<max_items, seen, item_count, current_url, followed,
                   started, emitted, priceVars, flatVars, postVars>>

\* a variant that suppresses one call late
ReachedMax_Late == item_count > max_items

\* line 118
ReachedMax == item_count >= max_items

\* lines 116-203: the framework calls parse_product for a follow issued; the
\* call runs to its yield (or its return) in one step
ParseProduct(u) ==
    /\ started[u] < followed[u]
    /\ started' = [started EXCEPT ![u] = @ + 1]
    /\ current_url' = u
    /\ IF ReachedMax
       THEN UNCHANGED <<item_count, emitted>>
       ELSE /\ item_count' = item_count + 1
            /\ emitted' = emitted + 1
    /\ UNCHANGED <<max_items, seen, gens, followed,
                   priceVars, flatVars, postVars>>

NextSpider ==
    \/ \E g \in Slots : StartListing(g)
    \/ \E g \in Slots : FollowProduct(g)
    \/ \E g \in Slots : Paginate(g)
    \/ \E g \in Slots : EndListing(g)
    \/ \E u \in ProductUrls : ParseProduct(u)

SpecSpider == InitSpider /\ [][NextSpider]_vars

\* some parse_product call starts in this step
ProductCallStarts == started' /= started

\* what a parse_product call does to the counter and the output
EmissionStep ==
    ProductCallStarts =>
        IF item_count >= max_items
        THEN item_count' = item_count /\ emitted' = emitted
        ELSE item_count' = item_count + 1 /\ emitted' = emitted + 1

\* C8 as stated: the counter never exceeds max_items and is the number of
\* records emitted; a parse_product call that starts at or over the maximum
\* emits nothing and leaves the counter, any other call emits one record and
\* adds one.
C8_NeverExceedsMax ==
    /\ [](item_count <= max_items /\ item_count = emitted)
    /\ [][EmissionStep]_vars

\* C8 as amended: the same, the counter never exceeding max_items when
\* max_items is not negative and staying 0 when it is.
C8_NeverExceedsMaxOrZero ==
    /\ [](/\ item_count = emitted
          /\ max_items >= 0 => item_count <= max_items
          /\ max_items < 0 => item_count = 0)
    /\ [][EmissionStep]_vars

C8_Witness ==
    /\ max_items = 1 /\ item_count = 1 /\ emitted = 1
    /\ \A u \in ProductUrls : started[u] = 1

\* C9: a product URL is followed at most once in the crawl, the seen-set is
\* exactly the set of product URLs followed so far, and it only grows.
C9_FollowedOnce ==
    /\ [](/\ \A u \in ProductUrls : followed[u] <= 1
          /\ seen = {u \in ProductUrls : followed[u] >= 1})
    /\ [][seen \subseteq seen']_vars

\* both product URLs were followed while two listing calls, one of them
\* still holding a link to a URL already seen, are under way
C9_Witness ==
    /\ seen = ProductUrls
    /\ \A u \in ProductUrls : followed[u] = 1
    /\ gens["g1"].stage = "links" /\ gens["g2"].stage = "links"
    /\ gens["g1"].links /= <<>>

\* C10: a call issues its pagination follow only when item_count < max_items
\* after its product links, and ends right after it (at most one per call);
\* with no "next" anchor the link followed is a ?page= link of the page whose
\* number is the current page number plus one (1 when the URL has none), and
\* the call ends without a follow when the page has no such link.
C10_Pagination ==
    /\ [](\A g \in Slots :
             LET s   == gens[g]
                 cur == IF s.page.cur = 0 THEN 1 ELSE s.page.cur
             IN /\ (s.stage = "paginated" /\ ~s.byAnchor) =>
                       (s.href \in s.page.pages /\ s.href.num = cur + 1)
                /\ (s.stage = "ended" /\ s.read) =>
                       /\ s.page.anchor = "None"
                       /\ \A h \in s.page.pages : h.num /= cur + 1)
    /\ [][\A g \in Slots :
             /\ (gens[g].stage /= "paginated" /\ gens'[g].stage = "paginated") =>
                    /\ gens[g].stage = "links"
                    /\ item_count < max_items
                    /\ \A i \in 1..Len(gens[g].links) : gens[g].links[i] \in seen
             /\ (gens[g].stage = "paginated" /\ gens'[g] /= gens[g]) =>
                    gens'[g].stage = "idle"
             /\ (gens[g].stage = "links" /\ gens'[g].stage = "ended"
                 /\ item_count >= max_items) => ~gens'[g].read]_vars

C10_Witness ==
    /\ gens["g1"].stage = "paginated" /\ ~gens["g1"].byAnchor
    /\ gens["g1"].page.cur = 2 /\ gens["g1"].href = [path |-> 1, num |-> 3]
    /\ gens["g1"].page.pages = {[path |-> 1, num |-> 3], [path |-> 2, num |-> 3]}
    /\ item_count >= max_items

=============================================================================
